---- MODULE Spec2Model ----
(***************************************************************************)
(* MarkovGenerator (src/lib/markov.ts) and the frontend's generateNew      *)
(* (+page.svelte).                                                         *)
(*                                                                         *)
(* A JavaScript string is a sequence of one-character strings; a           *)
(* JavaScript object is the sequence of its own properties, in the order   *)
(* Object.keys and for-in enumerate them.                                  *)
(***************************************************************************)
EXTENDS Integers, Sequences, FiniteSets, TLC

(* ------------------------------ bounds -------------------------------- *)

\* Size of a training array: its characters plus its element breaks.
MaxInput == 4

\* Largest count argument of generateList, in halves (count = k / 2).
MaxCount2 == 4

\* Longest text of the frontend's text area.
MaxText == 3

\* Largest value of the frontend's number input.
MaxRequested == 2

(* ----------------------------- characters ----------------------------- *)

Whitespace == {" "}

Alphabet == {"a", "b", "1"} \cup Whitespace

TextAlphabet == {"a", "b"} \cup Whitespace

Digits == <<"0", "1", "2", "3", "4", "5", "6", "7", "8", "9">>

IsDigit(c) == \E d \in 1..10 : Digits[d] = c

DigitValue(c) == (CHOOSE d \in 1..10 : Digits[d] = c) - 1

\* String(n) for an integer n >= 0.
RECURSIVE JSString(_)
JSString(n) ==
    IF n < 10 THEN <<Digits[n + 1]>>
    ELSE JSString(n \div 10) \o <<Digits[(n % 10) + 1]>>

\* The value of the digits s[1..n].
RECURSIVE DigitsValue(_, _)
DigitsValue(s, n) ==
    IF n = 0 THEN 0 ELSE 10 * DigitsValue(s, n - 1) + DigitValue(s[n])

\* The number of leading digits of s from position i on.
RECURSIVE DigitRun(_, _)
DigitRun(s, i) ==
    IF i > Len(s) \/ ~IsDigit(s[i]) THEN 0 ELSE 1 + DigitRun(s, i + 1)

\* The number of leading whitespace characters of s from position i on.
RECURSIVE SpaceRun(_, _)
SpaceRun(s, i) ==
    IF i > Len(s) \/ s[i] \notin Whitespace THEN 0 ELSE 1 + SpaceRun(s, i + 1)

\* parseInt(s, 10) on unsigned input: leading whitespace is skipped, the
\* longest digit prefix is read, and there is no number without a digit.
ParseInt(s) ==
    LET t == SubSeq(s, SpaceRun(s, 1) + 1, Len(s))
        n == DigitRun(t, 1)
    IN  IF n = 0 THEN [nan |-> TRUE, val |-> 0]
        ELSE [nan |-> FALSE, val |-> DigitsValue(t, n)]

\* A property key that is a canonical array index: such keys are enumerated
\* first, in ascending numeric order.
IsArrayIndex(key) ==
    /\ key # <<>>
    /\ \A i \in 1..Len(key) : IsDigit(key[i])
    /\ Len(key) > 1 => key[1] # "0"
    /\ Len(key) <= 9

(* --------------------------- JavaScript objects ----------------------- *)

Keys(obj) == [i \in 1..Len(obj) |-> obj[i].k]

Has(obj, key) == \E i \in 1..Len(obj) : obj[i].k = key

Get(obj, key) == obj[CHOOSE i \in 1..Len(obj) : obj[i].k = key].v

\* InsertAt with every new key enumerated last, whatever its form.
InsertAtEnd(obj, key) == Len(obj) + 1

\* The position a new property key takes in the enumeration order.
InsertAt(obj, key) ==
    IF IsArrayIndex(key)
    THEN 1 + Cardinality({i \in 1..Len(obj) :
                 /\ IsArrayIndex(obj[i].k)
                 /\ ParseInt(obj[i].k).val < ParseInt(key).val})
    ELSE Len(obj) + 1

\* obj[key] = val
Put(obj, key, val) ==
    IF Has(obj, key)
    THEN [i \in 1..Len(obj) |->
             IF obj[i].k = key THEN [k |-> key, v |-> val] ELSE obj[i]]
    ELSE LET p == InsertAt(obj, key)
         IN  SubSeq(obj, 1, p - 1) \o <<[k |-> key, v |-> val]>>
                 \o SubSeq(obj, p, Len(obj))

(* ------------------------------ key names ----------------------------- *)

termCountKey == <<"t", "e", "r", "m", "C", "o", "u", "n", "t">>

termLengthKey == <<"t", "e", "r", "m", "L", "e", "n", "g", "t", "h">>

initialUnitKey == <<"i", "n", "i", "t", "i", "a", "l", "U", "n", "i", "t">>

selectionWeightsKey ==
    <<"s", "e", "l", "e", "c", "t", "i", "o", "n",
      "W", "e", "i", "g", "h", "t", "s">>

(* ------------------------------ training ------------------------------ *)

\* sequence.split(/\s+/): the pieces between maximal runs of whitespace,
\* the empty pieces at either end included.
RECURSIVE SplitFrom(_, _, _, _)
SplitFrom(s, i, cur, inRun) ==
    IF i > Len(s) THEN <<cur>>
    ELSE IF s[i] \in Whitespace
         THEN IF inRun THEN SplitFrom(s, i + 1, cur, TRUE)
              ELSE <<cur>> \o SplitFrom(s, i + 1, <<>>, TRUE)
         ELSE SplitFrom(s, i + 1, Append(cur, s[i]), FALSE)

SplitWhitespace(s) == SplitFrom(s, 1, <<>>, FALSE)

\* sequence.split(/\s+/).filter((t) => t.length > 0)
Tokenize(s) == SelectSeq(SplitWhitespace(s), LAMBDA t : Len(t) > 0)

\* increment(model, category, choice), choice already a string.
increment(model, category, choiceStr) ==
    IF choiceStr = <<>> THEN model
    ELSE LET m1 == IF Has(model, category) THEN model
                   ELSE Put(model, category, <<>>)
             categoryMap == Get(m1, category)
             old == IF Has(categoryMap, choiceStr)
                    THEN Get(categoryMap, choiceStr) ELSE 0
         IN  Put(m1, category, Put(categoryMap, choiceStr, old + 1))

\* TrainUnits with previousUnit never advanced past the initial unit.
RECURSIVE TrainUnitsStuck(_, _, _, _)
TrainUnitsStuck(model, term, i, previousUnit) ==
    IF i > Len(term) THEN model
    ELSE TrainUnitsStuck(increment(model, previousUnit, <<term[i]>>),
                         term, i + 1, previousUnit)

\* The inner loop over the characters term[i..] of one term.
RECURSIVE TrainUnits(_, _, _, _)
TrainUnits(model, term, i, previousUnit) ==
    IF i > Len(term) THEN model
    ELSE LET currentUnit == <<term[i]>>
         IN  TrainUnits(increment(model, previousUnit, currentUnit),
                        term, i + 1, currentUnit)

\* The body of the loop over the terms of one source string.
TrainTerm(model, term) ==
    LET m1 == increment(model, termLengthKey, JSString(Len(term)))
        initial == SubSeq(term, 1, 1)
    IN  IF initial = <<>> THEN m1
        ELSE TrainUnits(increment(m1, initialUnitKey, initial),
                        term, 2, initial)

RECURSIVE TrainTerms(_, _, _)
TrainTerms(model, terms, j) ==
    IF j > Len(terms) THEN model
    ELSE TrainTerms(TrainTerm(model, terms[j]), terms, j + 1)

\* The body of the loop over the source strings.
TrainSequence(model, sequence) ==
    IF sequence = <<>> THEN model
    ELSE LET terms == Tokenize(sequence)
         IN  IF Len(terms) = 0 THEN model
             ELSE TrainTerms(increment(model, termCountKey,
                                       JSString(Len(terms))), terms, 1)

RECURSIVE TrainSequences(_, _, _)
TrainSequences(model, sourceSequences, j) ==
    IF j > Len(sourceSequences) THEN model
    ELSE TrainSequences(TrainSequence(model, sourceSequences[j]),
                        sourceSequences, j + 1)

EmptyRawModel ==
    <<[k |-> termCountKey, v |-> <<>>],
      [k |-> termLengthKey, v |-> <<>>],
      [k |-> initialUnitKey, v |-> <<>>]>>

buildRawModel(sourceSequences) ==
    TrainSequences(EmptyRawModel, sourceSequences, 1)

(* ------------------------------ weighting ----------------------------- *)

\* Unbounded naturals as little-endian sequences of limbs below 10000.
RECURSIVE BigTimes(_, _, _)
BigTimes(a, k, carry) ==
    IF a = <<>> THEN (IF carry = 0 THEN <<>> ELSE <<carry>>)
    ELSE LET p == a[1] * k + carry
         IN  <<p % 10000>> \o BigTimes(Tail(a), k, p \div 10000)

RECURSIVE BigPow(_, _)
BigPow(k, e) ==
    IF e = 0 THEN <<1>>
    ELSE IF k = 0 THEN <<>>
    ELSE BigTimes(BigPow(k, e - 1), k, 0)

RECURSIVE BigLeqFrom(_, _, _)
BigLeqFrom(a, b, i) ==
    IF i = 0 THEN TRUE
    ELSE IF a[i] # b[i] THEN a[i] < b[i]
    ELSE BigLeqFrom(a, b, i - 1)

BigLeq(a, b) ==
    IF Len(a) # Len(b) THEN Len(a) < Len(b) ELSE BigLeqFrom(a, b, Len(a))

\* The w in lo..(hi - 1) with w^10 <= target < (w + 1)^10, given that
\* lo^10 <= target < hi^10.
RECURSIVE FloorRoot10(_, _, _)
FloorRoot10(target, lo, hi) ==
    IF hi - lo <= 1 THEN lo
    ELSE LET mid == (lo + hi) \div 2
         IN  IF BigLeq(BigPow(mid, 10), target)
             THEN FloorRoot10(target, mid, hi)
             ELSE FloorRoot10(target, lo, mid)

\* WeightedCount without the exponent.
WeightedCountLinear(count) == count

\* Math.floor(Math.pow(count, 1.3)): the w with w^10 <= count^13 < (w+1)^10,
\* which lies in 0..count^2.
WeightedCount(count) ==
    FloorRoot10(BigPow(count, 13), 0, count * count + 1)

\* WeighMap with the total assigned instead of accumulated.
RECURSIVE WeighMapLast(_, _, _, _)
WeighMapLast(frequencyMap, i, out, total) ==
    IF i > Len(frequencyMap) THEN [map |-> out, total |-> total]
    ELSE LET weightedCount == WeightedCount(frequencyMap[i].v)
         IN  WeighMapLast(frequencyMap, i + 1,
                          Put(out, frequencyMap[i].k, weightedCount),
                          weightedCount)

\* The inner loop of applyWeighting over frequencyMap[i..]: the re-weighted
\* map and the total of its weights.
RECURSIVE WeighMap(_, _, _, _)
WeighMap(frequencyMap, i, out, total) ==
    IF i > Len(frequencyMap) THEN [map |-> out, total |-> total]
    ELSE LET weightedCount == WeightedCount(frequencyMap[i].v)
         IN  WeighMap(frequencyMap, i + 1,
                      Put(out, frequencyMap[i].k, weightedCount),
                      total + weightedCount)

\* The outer loop of applyWeighting over the categories model[i..].
RECURSIVE WeighCategories(_, _, _)
WeighCategories(model, i, selectionWeights) ==
    IF i > Len(model)
    THEN Put(model, selectionWeightsKey, selectionWeights)
    ELSE LET w == WeighMap(model[i].v, 1, model[i].v, 0)
         IN  WeighCategories(Put(model, model[i].k, w.map), i + 1,
                             Put(selectionWeights, model[i].k, w.total))

applyWeighting(model) == WeighCategories(model, 1, <<>>)

\* Construct without the branch for the empty array.
ConstructAlwaysTrained(sourceSequences) ==
    applyWeighting(buildRawModel(sourceSequences))

\* new MarkovGenerator(sourceSequences)
Construct(sourceSequences) ==
    IF Len(sourceSequences) = 0
    THEN <<[k |-> termCountKey, v |-> <<>>],
           [k |-> termLengthKey, v |-> <<>>],
           [k |-> initialUnitKey, v |-> <<>>],
           [k |-> selectionWeightsKey, v |-> <<>>]>>
    ELSE applyWeighting(buildRawModel(sourceSequences))

(* ------------------------------ sampling ------------------------------ *)

\* The values Math.floor(Math.random() * totalWeight) can take in
\* selectChoice(category); a call that returns before the draw takes none,
\* which is written as the single draw 0.
Draws(m, category) ==
    LET weights == Get(m, selectionWeightsKey)
    IN  IF Has(weights, category) /\ Get(weights, category) > 0
        THEN 0..(Get(weights, category) - 1)
        ELSE {0}

\* Walk comparing with >= instead of >.
RECURSIVE WalkInclusive(_, _, _, _)
WalkInclusive(frequencyMap, i, accumulatedWeight, randomIndex) ==
    IF i > Len(frequencyMap)
    THEN [ok |-> TRUE, choice |-> frequencyMap[Len(frequencyMap)].k,
          path |-> "after"]
    ELSE IF accumulatedWeight + frequencyMap[i].v >= randomIndex
         THEN [ok |-> TRUE, choice |-> frequencyMap[i].k, path |-> "loop"]
         ELSE WalkInclusive(frequencyMap, i + 1,
                            accumulatedWeight + frequencyMap[i].v, randomIndex)

\* The loop of selectChoice over choices[i..] with the weight accumulated
\* so far; the return after the loop is the last choice.
RECURSIVE Walk(_, _, _, _)
Walk(frequencyMap, i, accumulatedWeight, randomIndex) ==
    IF i > Len(frequencyMap)
    THEN [ok |-> TRUE, choice |-> frequencyMap[Len(frequencyMap)].k,
          path |-> "after"]
    ELSE IF accumulatedWeight + frequencyMap[i].v > randomIndex
         THEN [ok |-> TRUE, choice |-> frequencyMap[i].k, path |-> "loop"]
         ELSE Walk(frequencyMap, i + 1,
                   accumulatedWeight + frequencyMap[i].v, randomIndex)

NoChoice == [ok |-> FALSE, choice |-> <<>>, path |-> "miss"]

\* selectChoice refusing a total of 1 as well as a total of 0.
selectChoiceAboveOne(m, category, randomIndex) ==
    LET weights == Get(m, selectionWeightsKey)
    IN  IF ~Has(weights, category) THEN NoChoice
        ELSE IF Get(weights, category) <= 1 THEN NoChoice
        ELSE IF ~Has(m, category) THEN NoChoice
        ELSE IF Len(Get(m, category)) = 0 THEN NoChoice
        ELSE Walk(Get(m, category), 1, 0, randomIndex)

\* selectChoice(category) with randomIndex the value drawn at line 109.
selectChoice(m, category, randomIndex) ==
    LET weights == Get(m, selectionWeightsKey)
    IN  IF ~Has(weights, category) THEN NoChoice
        ELSE IF Get(weights, category) <= 0 THEN NoChoice
        ELSE IF ~Has(m, category) THEN NoChoice
        ELSE IF Len(Get(m, category)) = 0 THEN NoChoice
        ELSE Walk(Get(m, category), 1, 0, randomIndex)

\* ret || dflt: false and the empty string are falsy.
OrElse(ret, dflt) == IF ret.ok /\ ret.choice # <<>> THEN ret.choice ELSE dflt

\* !ret
Falsy(ret) == ~ret.ok \/ ret.choice = <<>>

\* Join without the separator.
RECURSIVE JoinTight(_)
JoinTight(ts) == IF Len(ts) = 0 THEN <<>> ELSE ts[1] \o JoinTight(Tail(ts))

\* terms.join(' ')
RECURSIVE Join(_)
Join(ts) ==
    IF Len(ts) = 0 THEN <<>>
    ELSE IF Len(ts) = 1 THEN ts[1]
    ELSE ts[1] \o <<" ">> \o Join(Tail(ts))

\* The record of one selectChoice call.
Call(category, randomIndex, ret) ==
    [category |-> category, randomIndex |-> randomIndex, ret |-> ret]

(* ------------------------------- inputs ------------------------------- *)

\* The training arrays of size at most MaxInput: every string of at most
\* MaxInput symbols over the alphabet and an element break, cut at the
\* breaks, and the empty array.
ElementBreak == "|"

RECURSIVE CutAtBreaks(_, _, _)
CutAtBreaks(f, i, cur) ==
    IF i > Len(f) THEN <<cur>>
    ELSE IF f[i] = ElementBreak
         THEN <<cur>> \o CutAtBreaks(f, i + 1, <<>>)
         ELSE CutAtBreaks(f, i + 1, Append(cur, f[i]))

Inputs ==
    {<<>>} \cup
    {CutAtBreaks(f, 1, <<>>) :
        f \in UNION {[1..n -> Alphabet \cup {ElementBreak}] : n \in 0..MaxInput}}

Counts2 == (0 - MaxCount2)..MaxCount2

(* -------------------------------- state ------------------------------- *)

VARIABLES
    sourceSequences,  \* the constructor's argument
    model,            \* this.model
    pc,               \* where the call in progress stands
    caller,           \* "generate" or "generateList": the public call made
    termCount,        \* generate: termCount
    i,                \* generate: the loop index i
    terms,            \* generate: terms
    termLength,       \* generate: termLength
    currentTerm,      \* generate: currentTerm
    previousUnit,     \* generate: previousUnit
    result,           \* the string the last generate() returned
    sel,              \* the selectChoice calls of the last step
    count2,           \* generateList: twice its argument count
    numToGenerate,    \* generateList: numToGenerate
    li,               \* generateList: the loop index i
    list,             \* generateList: list
    customText,       \* frontend: the text area
    requestedTermCount, \* frontend: requestedTermCount
    termAttempts,     \* frontend: termAttempts
    newTerms,         \* frontend: generateNew's newTerms
    currentGenerated  \* frontend: the displayed set

trained == <<sourceSequences, model>>

listVars == <<count2, numToGenerate, li, list>>

frontVars ==
    <<customText, requestedTermCount, termAttempts, newTerms,
      currentGenerated>>

vars ==
    <<sourceSequences, model, pc, caller, termCount, i, terms, termLength,
      currentTerm, previousUnit, result, sel, listVars, frontVars>>

NoNumber == [nan |-> FALSE, val |-> 0]

\* The locals of a call of generate() before line 55.
FreshLocals ==
    /\ termCount = NoNumber
    /\ i = 0
    /\ terms = <<>>
    /\ termLength = NoNumber
    /\ currentTerm = <<>>
    /\ previousUnit = <<>>
    /\ result = <<>>

\* No call of generateList or generateNew was made.
NoCaller ==
    /\ pc = "idle"
    /\ caller = "none"
    /\ FreshLocals
    /\ sel = <<>>
    /\ count2 = 0
    /\ numToGenerate = 0
    /\ li = 0
    /\ list = <<>>
    /\ requestedTermCount = 0
    /\ termAttempts = 0
    /\ newTerms = {}
    /\ currentGenerated = {}

\* A generator constructed from any training array, used without the frontend.
Init ==
    /\ sourceSequences \in Inputs
    /\ model = Construct(sourceSequences)
    /\ customText = <<>>
    /\ NoCaller

\* No call is in progress: the caller may make the next one.
Idle == pc \in {"idle", "done", "threw", "list_done"}

(* ------------------------------ generate ------------------------------ *)

\* Lines 55-58: the term count is sampled, the loop index starts at 0.
Enter ==
    \E r \in Draws(model, termCountKey) :
        LET termCountStr == selectChoice(model, termCountKey, r)
        IN  /\ termCount' = ParseInt(OrElse(termCountStr, <<"1">>))
            /\ terms' = <<>>
            /\ i' = 0
            /\ termLength' = NoNumber
            /\ currentTerm' = <<>>
            /\ previousUnit' = <<>>
            /\ result' = <<>>
            /\ sel' = <<Call(termCountKey, r, termCountStr)>>
            /\ pc' = "for"

\* A caller invokes generate().
generate ==
    /\ Idle
    /\ caller' = "generate"
    /\ Enter
    /\ count2' = 0
    /\ numToGenerate' = 0
    /\ li' = 0
    /\ list' = <<>>
    /\ UNCHANGED <<trained, frontVars>>

\* Lines 59-71: one more term is begun, or the call throws.
generate_term ==
    /\ pc = "for"
    /\ ~termCount.nan /\ i < termCount.val
    /\ \E r1 \in Draws(model, termLengthKey),
          r2 \in Draws(model, initialUnitKey) :
        LET termLengthStr == selectChoice(model, termLengthKey, r1)
            len == ParseInt(OrElse(termLengthStr, <<"6">>))
            initial == selectChoice(model, initialUnitKey, r2)
        IN  /\ termLength' = len
            /\ sel' = <<Call(termLengthKey, r1, termLengthStr),
                        Call(initialUnitKey, r2, initial)>>
            /\ IF Falsy(initial) \/ (~len.nan /\ len.val <= 0)
               THEN /\ pc' = "threw"
                    /\ UNCHANGED <<currentTerm, previousUnit>>
               ELSE /\ pc' = "while"
                    /\ currentTerm' = initial.choice
                    /\ previousUnit' = initial.choice
    /\ UNCHANGED <<trained, caller, termCount, i, terms, result, listVars,
                   frontVars>>

\* Lines 72-77: the term grows by one sampled unit.
generate_grow ==
    /\ pc = "while"
    /\ ~termLength.nan /\ Len(currentTerm) < termLength.val
    /\ \E r \in Draws(model, previousUnit) :
        LET nextUnit == selectChoice(model, previousUnit, r)
        IN  /\ ~Falsy(nextUnit)
            /\ currentTerm' = currentTerm \o nextUnit.choice
            /\ previousUnit' = nextUnit.choice
            /\ sel' = <<Call(previousUnit, r, nextUnit)>>
    /\ UNCHANGED <<trained, pc, caller, termCount, i, terms, termLength,
                   result, listVars, frontVars>>

\* Lines 72-74 and 78: the loop ends, at the sampled length or because no
\* next unit was found, and the term is pushed.
generate_push ==
    /\ pc = "while"
    /\ \/ /\ termLength.nan \/ Len(currentTerm) >= termLength.val
          /\ sel' = <<>>
       \/ /\ ~termLength.nan /\ Len(currentTerm) < termLength.val
          /\ \E r \in Draws(model, previousUnit) :
              LET nextUnit == selectChoice(model, previousUnit, r)
              IN  /\ Falsy(nextUnit)
                  /\ sel' = <<Call(previousUnit, r, nextUnit)>>
    /\ terms' = Append(terms, currentTerm)
    /\ i' = i + 1
    /\ pc' = "for"
    /\ UNCHANGED <<trained, caller, termCount, termLength, currentTerm,
                   previousUnit, result, listVars, frontVars>>

\* Lines 59 and 80: the loop is over and the joined terms are returned.
generate_return ==
    /\ pc = "for"
    /\ termCount.nan \/ i >= termCount.val
    /\ result' = Join(terms)
    /\ sel' = <<>>
    /\ pc' = "done"
    /\ UNCHANGED <<trained, caller, termCount, i, terms, termLength,
                   currentTerm, previousUnit, listVars, frontVars>>

(* ---------------------------- generateList ---------------------------- *)

Max(a, b) == IF a >= b THEN a ELSE b

\* FloorHalf rounding up.
CeilHalf(c2) == (c2 + 1) \div 2

\* Math.floor(count) for count = c2 / 2.
FloorHalf(c2) == c2 \div 2

\* Lines 85-86.
generateList ==
    /\ Idle
    /\ \E c2 \in Counts2 :
        /\ count2' = c2
        /\ numToGenerate' = Max(0, FloorHalf(c2))
    /\ list' = <<>>
    /\ li' = 0
    /\ caller' = "generateList"
    /\ pc' = "list_for"
    /\ sel' = <<>>
    /\ termCount' = NoNumber
    /\ i' = 0
    /\ terms' = <<>>
    /\ termLength' = NoNumber
    /\ currentTerm' = <<>>
    /\ previousUnit' = <<>>
    /\ result' = <<>>
    /\ UNCHANGED <<trained, frontVars>>

\* Lines 87-88: the loop calls generate() once more.
generateList_call ==
    /\ pc = "list_for"
    /\ li < numToGenerate
    /\ Enter
    /\ UNCHANGED <<trained, caller, listVars, frontVars>>

\* Line 88: the string generate() returned is pushed.
generateList_push ==
    /\ pc = "done"
    /\ caller = "generateList"
    /\ li < numToGenerate
    /\ list' = Append(list, result)
    /\ li' = li + 1
    /\ pc' = "list_for"
    /\ UNCHANGED <<trained, caller, termCount, i, terms, termLength,
                   currentTerm, previousUnit, result, sel, count2,
                   numToGenerate, frontVars>>

\* Lines 87 and 90: the loop is over and the list is returned.
generateList_return ==
    /\ pc = "list_for"
    /\ li >= numToGenerate
    /\ pc' = "list_done"
    /\ UNCHANGED <<trained, caller, termCount, i, terms, termLength,
                   currentTerm, previousUnit, result, sel, listVars,
                   frontVars>>

Next ==
    \/ generate
    \/ generate_term
    \/ generate_grow
    \/ generate_push
    \/ generate_return
    \/ generateList
    \/ generateList_call
    \/ generateList_push
    \/ generateList_return

Spec == Init /\ [][Next]_vars

(* ------------------------------ frontend ------------------------------ *)

termAttemptLimit == 500

\* The message the catch block displays: no generated term equals it.
ErrorMessage == <<"Error: could not generate based on model/data">>

Texts == UNION {[1..n -> TextAlphabet] : n \in 0..MaxText}

\* customData: customText.split(/\s+/).filter((word) => word.length > 0)
customData == Tokenize(customText)

\* The page with the Custom category selected and some text typed in; a run
\* follows one click of the button.
InitFront ==
    /\ customText \in Texts
    /\ sourceSequences = <<>>
    /\ model = Construct(<<>>)
    /\ NoCaller

FrontIdle == pc = "idle"

\* Lines 37-47: the button is clicked with some number in the input.
generateNew ==
    /\ FrontIdle
    /\ requestedTermCount' \in 1..MaxRequested
    /\ termAttempts' = 0
    /\ newTerms' = {}
    /\ sourceSequences' = customData
    /\ model' = Construct(customData)
    /\ caller' = "generateNew"
    /\ pc' = "new_while"
    /\ termCount' = NoNumber
    /\ i' = 0
    /\ terms' = <<>>
    /\ termLength' = NoNumber
    /\ currentTerm' = <<>>
    /\ previousUnit' = <<>>
    /\ result' = <<>>
    /\ sel' = <<>>
    /\ UNCHANGED <<customText, currentGenerated, listVars>>

\* MoreWanted with the size compared to requestedTermCount itself.
MoreWantedOneMore ==
    /\ Cardinality(newTerms) <= requestedTermCount
    /\ termAttempts < termAttemptLimit

\* The loop condition of lines 49-52.
MoreWanted ==
    /\ Cardinality(newTerms) <= requestedTermCount - 1
    /\ termAttempts < termAttemptLimit

\* Lines 49-53: the loop calls generate() once more.
generateNew_call ==
    /\ pc = "new_while"
    /\ MoreWanted
    /\ Enter
    /\ UNCHANGED <<trained, caller, listVars, frontVars>>

\* Lines 53-55: the returned term is added and the attempt counted.
generateNew_add ==
    /\ pc = "done"
    /\ caller = "generateNew"
    /\ newTerms' = newTerms \cup {result}
    /\ termAttempts' = termAttempts + 1
    /\ pc' = "new_while"
    /\ UNCHANGED <<trained, caller, termCount, i, terms, termLength,
                   currentTerm, previousUnit, result, sel, listVars,
                   customText, requestedTermCount, currentGenerated>>

\* Lines 57-61: generate() threw.
generateNew_catch ==
    /\ pc = "threw"
    /\ caller = "generateNew"
    /\ currentGenerated' = {ErrorMessage}
    /\ pc' = "new_failed"
    /\ UNCHANGED <<trained, caller, termCount, i, terms, termLength,
                   currentTerm, previousUnit, result, sel, listVars,
                   customText, requestedTermCount, termAttempts, newTerms>>

\* Lines 49-52 and 63: the loop is over and the new terms are displayed.
generateNew_return ==
    /\ pc = "new_while"
    /\ ~MoreWanted
    /\ currentGenerated' = newTerms
    /\ pc' = "new_done"
    /\ UNCHANGED <<trained, caller, termCount, i, terms, termLength,
                   currentTerm, previousUnit, result, sel, listVars,
                   customText, requestedTermCount, termAttempts, newTerms>>

NextFront ==
    \/ generateNew
    \/ generateNew_call
    \/ generate_term
    \/ generate_grow
    \/ generate_push
    \/ generate_return
    \/ generateNew_add
    \/ generateNew_catch
    \/ generateNew_return

SpecFront == InitFront /\ [][NextFront]_vars

(* ----------------------- what the training data holds ------------------ *)

\* An upper bound of every length and count of a training array.
SizeMax == MaxInput + 1

Units == Alphabet \ Whitespace

\* s[a..b] is a term of s: a maximal run of characters that are not whitespace.
IsTermSpan(s, a, b) ==
    /\ a <= b
    /\ \A j \in a..b : s[j] \notin Whitespace
    /\ a = 1 \/ s[a - 1] \in Whitespace
    /\ b = Len(s) \/ s[b + 1] \in Whitespace

TermSpans(s) ==
    {ab \in (1..Len(s)) \X (1..Len(s)) : IsTermSpan(s, ab[1], ab[2])}

NumTerms(k) == Cardinality(TermSpans(sourceSequences[k]))

\* The terms of the training array: <<k, a, b>> is sourceSequences[k][a..b].
TermOccs ==
    {kab \in (1..Len(sourceSequences)) \X (1..SizeMax) \X (1..SizeMax) :
        /\ kab[2] <= Len(sourceSequences[kab[1]])
        /\ kab[3] <= Len(sourceSequences[kab[1]])
        /\ IsTermSpan(sourceSequences[kab[1]], kab[2], kab[3])}

\* The adjacent pairs of units inside terms: <<k, j>> is the pair at j, j + 1.
PairOccs ==
    {kj \in (1..Len(sourceSequences)) \X (1..SizeMax) :
        /\ kj[2] + 1 <= Len(sourceSequences[kj[1]])
        /\ sourceSequences[kj[1]][kj[2]] \notin Whitespace
        /\ sourceSequences[kj[1]][kj[2] + 1] \notin Whitespace}

NoTermsTrained == TermOccs = {}

RecordedTermCount(n) ==
    Cardinality({k \in 1..Len(sourceSequences) : NumTerms(k) = n})

RecordedTermLength(n) ==
    Cardinality({t \in TermOccs : t[3] - t[2] + 1 = n})

RecordedInitial(c) ==
    Cardinality({t \in TermOccs : sourceSequences[t[1]][t[2]] = c})

RecordedPair(p, c) ==
    Cardinality({kj \in PairOccs :
        /\ sourceSequences[kj[1]][kj[2]] = p
        /\ sourceSequences[kj[1]][kj[2] + 1] = c})

ObservedTermCounts == {NumTerms(k) : k \in 1..Len(sourceSequences)} \ {0}

ObservedTermLengths == {t[3] - t[2] + 1 : t \in TermOccs}

ObservedInitials == {sourceSequences[t[1]][t[2]] : t \in TermOccs}

ObservedPairs ==
    {<<sourceSequences[kj[1]][kj[2]], sourceSequences[kj[1]][kj[2] + 1]>> :
        kj \in PairOccs}

FixedKeys == {termCountKey, termLengthKey, initialUnitKey}

\* The categories of the model: its keys other than selectionWeights.
Categories == {model[n].k : n \in 1..Len(model)} \ {selectionWeightsKey}

Weights == Get(model, selectionWeightsKey)

RECURSIVE SumValues(_)
SumValues(obj) == IF obj = <<>> THEN 0 ELSE obj[1].v + SumValues(Tail(obj))

(* ------------------------------- claims ------------------------------- *)

\* C2 as written: construction from [] or from an array of empty and
\* whitespace-only strings yields empty termCount, termLength and initialUnit
\* maps and a selectionWeights map with no entries at all.
C2_Original ==
    NoTermsTrained =>
        /\ \A c \in FixedKeys : Has(model, c) /\ Get(model, c) = <<>>
        /\ Weights = <<>>

\* C2 amended: construction from [] or from an array of empty and
\* whitespace-only strings yields a model with exactly the three fixed
\* categories, all empty; selectionWeights has no entries when the array is
\* [], and holds exactly the three fixed categories, each with total 0, when
\* the array is non-empty.
C2_Amended ==
    NoTermsTrained =>
        /\ Categories = FixedKeys
        /\ \A c \in FixedKeys : Get(model, c) = <<>>
        /\ Has(model, selectionWeightsKey)
        /\ IF sourceSequences = <<>>
           THEN Weights = <<>>
           ELSE /\ {Weights[n].k : n \in 1..Len(Weights)} = FixedKeys
                /\ Len(Weights) = 3
                /\ \A c \in FixedKeys : Get(Weights, c) = 0

\* The model constructed from ["", "  "].
C2_Witness ==
    /\ sourceSequences = <<<<>>, <<" ", " ">>>>
    /\ pc = "idle"
    /\ Len(Weights) = 3

\* C3: after construction from a non-empty training array, selectionWeights
\* has an entry for every category of the model (termCount, termLength,
\* initialUnit and every transition category), equal to the sum of the
\* re-weighted values stored in that category.
C3_WeightTotals ==
    sourceSequences # <<>> =>
        /\ FixedKeys \subseteq Categories
        /\ \A c \in Categories :
            /\ Has(Weights, c)
            /\ Get(Weights, c) = SumValues(Get(model, c))

\* A model with a transition category of two choices of different weights.
C3_Witness ==
    /\ pc = "idle"
    /\ \E c \in Categories \ FixedKeys :
        /\ Len(Get(model, c)) = 2
        /\ Get(model, c)[1].v # Get(model, c)[2].v
        /\ Get(Weights, c) = 3

\* w = floor(n^1.3): w^10 <= n^13 < (w + 1)^10.
IsFloorPow13(n, w) == w ^ 10 <= n ^ 13 /\ n ^ 13 < (w + 1) ^ 10

\* The entry (category c, choice x) was recorded n times.
EntryIs(c, x, n) ==
    LET present == Has(model, c) /\ Has(Get(model, c), x)
    IN  IF n = 0 THEN ~present
        ELSE present /\ IsFloorPow13(n, Get(Get(model, c), x))

ReweightExamples ==
    /\ WeightedCount(1) = 1
    /\ WeightedCount(2) = 2
    /\ WeightedCount(10) = 19
    /\ WeightedCount(100) = 398

\* C7: the model holds an entry (category, choice) exactly when training
\* recorded the choice in the category at least once, with weight
\* floor(n^1.3) for n recordings: n source strings of that term count, n terms
\* of that length, n terms with that first character, n adjacent pairs inside
\* terms; counts 1, 2, 10, 100 give 1, 2, 19, 398; a transition category
\* exists only for a character with a successor inside some term.
C7_Entries ==
    pc = "idle" =>
    /\ ReweightExamples
    /\ \A n \in 1..SizeMax :
        /\ EntryIs(termCountKey, JSString(n), RecordedTermCount(n))
        /\ EntryIs(termLengthKey, JSString(n), RecordedTermLength(n))
    /\ \A c \in Alphabet : EntryIs(initialUnitKey, <<c>>, RecordedInitial(c))
    /\ \A p \in Alphabet, c \in Alphabet :
        EntryIs(<<p>>, <<c>>, RecordedPair(p, c))
    /\ \A c \in FixedKeys : Has(model, c)
    /\ \A c \in {termCountKey, termLengthKey} :
        \A n \in 1..Len(Get(model, c)) :
            \E m \in 1..SizeMax : Get(model, c)[n].k = JSString(m)
    /\ \A c \in Categories \ {termCountKey, termLengthKey} :
        \A n \in 1..Len(Get(model, c)) :
            \E u \in Alphabet : Get(model, c)[n].k = <<u>>
    /\ Categories \ FixedKeys =
           {<<pc2[1]>> : pc2 \in ObservedPairs}

\* A model with an entry recorded three times, whose weight is 4.
C7_Witness ==
    /\ pc = "idle"
    /\ \E p \in Units, c \in Units :
        /\ RecordedPair(p, c) = 3
        /\ Get(Get(model, <<p>>), <<c>>) = 4

\* The moment of the first recording of choice x in category c: the source
\* strings are read in order and each from left to right.
Moment(k, j) == k * (SizeMax + 1) + j

Recordings(c) ==
    IF c = termCountKey
    THEN {<<Moment(k, 0), JSString(NumTerms(k))>> :
             k \in {k \in 1..Len(sourceSequences) : NumTerms(k) > 0}}
    ELSE IF c = termLengthKey
    THEN {<<Moment(t[1], t[2]), JSString(t[3] - t[2] + 1)>> : t \in TermOccs}
    ELSE IF c = initialUnitKey
    THEN {<<Moment(t[1], t[2]), <<sourceSequences[t[1]][t[2]]>>>> :
             t \in TermOccs}
    ELSE {<<Moment(kj[1], kj[2]), <<sourceSequences[kj[1]][kj[2] + 1]>>>> :
             kj \in {kj \in PairOccs :
                        <<sourceSequences[kj[1]][kj[2]]>> = c}}

FirstRecorded(c, x) ==
    LET ms == {r[1] : r \in {r \in Recordings(c) : r[2] = x}}
    IN  CHOOSE m \in ms : \A o \in ms : m <= o

\* C9 as written: selectChoice walks the choices of every category in the
\* order in which training first recorded them.
C9_Original ==
    \A c \in Categories :
        \A n \in 1..Len(Get(model, c)), m \in 1..Len(Get(model, c)) :
            n < m =>
                FirstRecorded(c, Get(model, c)[n].k)
                    < FirstRecorded(c, Get(model, c)[m].k)

\* C9 amended: selectChoice walks the choices of every category in this order:
\* first the choices that are canonical non-negative integer strings (the
\* stringified counts and lengths, and digit characters), in ascending numeric
\* order, then every other choice in the order in which training first
\* recorded it.
C9_Amended ==
    \A c \in Categories :
        \A n \in 1..Len(Get(model, c)), m \in 1..Len(Get(model, c)) :
            n < m =>
                LET x == Get(model, c)[n].k
                    y == Get(model, c)[m].k
                IN  IF IsArrayIndex(x) /\ IsArrayIndex(y)
                    THEN ParseInt(x).val < ParseInt(y).val
                    ELSE IF IsArrayIndex(x) \/ IsArrayIndex(y)
                    THEN IsArrayIndex(x)
                    ELSE FirstRecorded(c, x) < FirstRecorded(c, y)

\* selectChoice has walked past a digit to return a letter that training
\* recorded before the digit.
C9_Witness ==
    /\ Len(sel) > 0
    /\ LET call == sel[Len(sel)]
       IN  /\ call.ret.ok
           /\ ~IsArrayIndex(call.ret.choice)
           /\ \E n \in 1..Len(Get(model, call.category)) :
               LET y == Get(model, call.category)[n].k
               IN  /\ IsArrayIndex(y)
                   /\ FirstRecorded(call.category, call.ret.choice)
                          < FirstRecorded(call.category, y)

\* C1: generate() throws exactly when no term was trained on. On a model
\* trained on no term a call never grows a term and never returns: its one
\* step past the sampling of the term count throws. On a model trained on at
\* least one term no call throws.
C1_ThrowsExactly ==
    /\ [](/\ pc = "threw" => NoTermsTrained
          /\ NoTermsTrained => pc \notin {"while", "done"}
          /\ NoTermsTrained /\ pc = "for" =>
                 ~termCount.nan /\ i < termCount.val)
    /\ [][NoTermsTrained /\ pc = "for" => pc' = "threw"]_vars

\* generate() has thrown on a generator trained on an array that is not empty.
C1_Witness ==
    /\ pc = "threw"
    /\ caller = "generate"
    /\ sourceSequences # <<>>

\* The n with n <= c2 / 2 < n + 1.
FloorOfHalves(c2) == CHOOSE n \in (0 - SizeMax - MaxCount2)..MaxCount2 :
                        2 * n <= c2 /\ c2 < 2 * n + 2

\* C4: generateList(count) returns max(0, floor(count)) strings, each the
\* string one generate() call returned, in order, when no call fails; for
\* count <= 0 it returns the empty list and calls generate() not once, on
\* any model.
C4_List ==
    /\ pc = "list_done" =>
           Len(list) = (IF FloorOfHalves(count2) > 0
                        THEN FloorOfHalves(count2) ELSE 0)
    /\ caller = "generateList" => Len(list) = li
    /\ caller = "generateList" /\ pc = "list_for" /\ li > 0 =>
           list[li] = result
    /\ caller = "generateList" /\ count2 <= 0 =>
           /\ pc \in {"list_for", "list_done"}
           /\ list = <<>>
           /\ sel = <<>>

\* generateList(2) has returned two different strings.
C4_Witness ==
    /\ pc = "list_done"
    /\ count2 = 4
    /\ Len(list) = 2
    /\ list[1] # list[2]

\* The first character of t began a training term and every later one
\* followed its predecessor inside a training term.
Observed(t) ==
    /\ Len(t) >= 1
    /\ t[1] \in ObservedInitials
    /\ \A j \in 1..(Len(t) - 1) : <<t[j], t[j + 1]>> \in ObservedPairs

\* C5: every term of a string generate() returns, and every term under
\* construction, starts with the first character of some training term and
\* continues only with characters seen in training right after their
\* predecessor.
C5_NothingInvented ==
    /\ \A n \in 1..Len(terms) : Observed(terms[n])
    /\ pc = "while" => Observed(currentTerm)
    /\ pc = "done" =>
           \A ab \in TermSpans(result) : Observed(SubSeq(result, ab[1], ab[2]))

\* generate() has returned a string of three characters that is no training
\* string.
C5_Witness ==
    /\ pc = "done"
    /\ Len(result) = 3
    /\ \A k \in 1..Len(sourceSequences) : sourceSequences[k] # result

\* The number of choices whose cumulative weight is at most r.
RECURSIVE Passed(_, _)
Passed(obj, r) ==
    IF obj = <<>> \/ obj[1].v > r THEN 0
    ELSE 1 + Passed(Tail(obj), r - obj[1].v)

Selectable(c) == Has(Weights, c) /\ Get(Weights, c) > 0

\* C8: selectChoice returns no choice for a category without a
\* selectionWeights entry or with a total <= 0; otherwise, for a drawn r in
\* [0, total), it returns inside the loop the first choice whose cumulative
\* weight exceeds r, so that each choice is returned for exactly as many
\* draws as its weight, and the return after the loop is never taken.
C8_Select ==
    /\ \A n \in 1..Len(sel) :
        LET call == sel[n]
        IN  IF ~Selectable(call.category) THEN ~call.ret.ok
            ELSE /\ call.randomIndex \in 0..(Get(Weights, call.category) - 1)
                 /\ call.ret.ok
                 /\ call.ret.path = "loop"
                 /\ call.ret.choice =
                        Get(model, call.category)
                            [Passed(Get(model, call.category),
                                    call.randomIndex) + 1].k
    /\ \A c \in {c \in Categories : Selectable(c)} :
        /\ \A r \in 0..(Get(Weights, c) - 1) :
               selectChoice(model, c, r).path = "loop"
        /\ \A n \in 1..Len(Get(model, c)) :
               Cardinality({r \in 0..(Get(Weights, c) - 1) :
                   selectChoice(model, c, r).choice = Get(model, c)[n].k})
                   = Get(model, c)[n].v

\* selectChoice has returned the second of two choices of weights 2 and 1.
C8_Witness ==
    /\ Len(sel) > 0
    /\ LET call == sel[Len(sel)]
       IN  /\ call.ret.ok
           /\ Len(Get(model, call.category)) = 2
           /\ Get(model, call.category)[1].v = 2
           /\ Get(model, call.category)[2].v = 1
           /\ call.randomIndex = 2
           /\ call.ret.choice = Get(model, call.category)[2].k

RECURSIVE JoinedLength(_)
JoinedLength(ts) ==
    IF ts = <<>> THEN 0
    ELSE Len(ts[1]) + (IF Len(ts) > 1 THEN 1 ELSE 0) + JoinedLength(Tail(ts))

\* Where term n of the joined string starts, less one.
Offset(ts, n) == JoinedLength(SubSeq(ts, 1, n - 1)) + (IF n > 1 THEN 1 ELSE 0)

C10_Shape ==
    /\ \A n \in 1..Len(terms) :
        /\ Len(terms[n]) >= 1
        /\ \A j \in 1..Len(terms[n]) : terms[n][j] \notin Whitespace
    /\ pc = "while" =>
        /\ termLength.val \in ObservedTermLengths
        /\ 1 <= Len(currentTerm) /\ Len(currentTerm) <= termLength.val
        /\ \A j \in 1..Len(currentTerm) : currentTerm[j] \notin Whitespace
    /\ pc \in {"while", "done"} =>
        /\ ~termCount.nan
        /\ termCount.val \in ObservedTermCounts
    /\ pc = "done" =>
        /\ Len(terms) = termCount.val
        /\ Len(result) = JoinedLength(terms)
        /\ \A n \in 1..Len(terms) :
            /\ SubSeq(result, Offset(terms, n) + 1,
                      Offset(terms, n) + Len(terms[n])) = terms[n]
            /\ n > 1 => result[Offset(terms, n)] = " "

C10_Step ==
    /\ pc = "while" /\ pc' = "for" =>
        /\ terms' = Append(terms, currentTerm)
        /\ Len(currentTerm) < termLength.val =>
               ~Has(model, <<currentTerm[Len(currentTerm)]>>)
    /\ pc = "while" /\ pc' = "while" =>
        Len(currentTerm') = Len(currentTerm) + 1

\* C10: a string generate() returns is T terms joined by single spaces, T a
\* term count of some training string; a term holds no whitespace and has
\* between 1 and L characters, L the sampled length of some training term,
\* and fewer than L only when its last character has no transition category;
\* every turn of the growth loop lengthens the term, so the loop ends.
C10_Result == []C10_Shape /\ [][C10_Step]_vars

\* generate() has returned two terms, the second shorter than its sampled
\* length.
C10_Witness ==
    /\ pc = "done"
    /\ Len(terms) = 2
    /\ Len(terms[2]) < termLength.val

\* C6: generateNew makes at most 500 calls of generate(); when none fails, the
\* displayed set is the new terms, at most requestedTermCount of them, and
\* fewer only after 500 attempts; when one fails, the displayed set is the
\* error message alone.
C6_GenerateNew ==
    /\ termAttempts <= termAttemptLimit
    /\ caller = "generateNew" /\ pc \in {"for", "while", "done", "threw"} =>
           termAttempts < termAttemptLimit
    /\ pc = "new_done" =>
        /\ currentGenerated = newTerms
        /\ ErrorMessage \notin currentGenerated
        /\ Cardinality(currentGenerated) <= requestedTermCount
        /\ Cardinality(currentGenerated) < requestedTermCount =>
               termAttempts = termAttemptLimit
    /\ pc = "new_failed" => currentGenerated = {ErrorMessage}

\* generateNew has given up after 500 attempts with fewer terms than requested.
C6_Witness ==
    /\ pc = "new_done"
    /\ termAttempts = termAttemptLimit
    /\ Cardinality(currentGenerated) = 1
    /\ requestedTermCount = 2

====
